---- MODULE Spec2Model ----
(***************************************************************************)
(* Model of ironpath's two toolpath generators (src/src/lib.rs):           *)
(* AdditiveToolpathGenerator::generate_toolpaths and                       *)
(* SubtractiveToolpathGenerator::generate_toolpaths.                       *)
(*                                                                         *)
(* Numbers.  `Real` is a binary floating-point type.  A value of the model *)
(* is an integer count of units of 1e-7 (the tolerance of the two loop     *)
(* guards), and every arithmetic result is rounded to MantBits significant *)
(* bits, round-to-nearest, ties-to-even, as the hardware rounds to the     *)
(* significand of Real.  Sums that fit the significand are exact; larger   *)
(* ones are rounded and can be absorbed (z + step = z).                    *)
(*                                                                         *)
(* Geometry.  The solid model and its slicing primitive belong to the      *)
(* csgrs library.  A solid is a sequence of prisms [lo, hi, loop]: the     *)
(* plane at height h cuts the prism when lo <= h <= hi and the cut is the  *)
(* polygon `loop` lying in that plane.  A loop of two points stands for    *)
(* the degenerate polygons the slicing primitive can return.               *)
(***************************************************************************)
EXTENDS Integers, Sequences, FiniteSets, TLC

\* ------------------------------------------------------------- bounds ----
\* Significand width of the modelled Real.
MantBits == 4

\* Largest step drawn for layer_height / step_down (the smallest is -1).
MaxStep == 3

\* Loop iterations explored per run; the loops themselves have no such cap.
MaxSlices == 12

\* ---------------------------------------------------- program constants --
\* 1e-7, the tolerance in both loop guards, in model units.
Eps == 1

\* ------------------------------------------------------ Real arithmetic --
RECURSIVE Pow2(_)
Pow2(n) == IF n = 0 THEN 1 ELSE 2 * Pow2(n - 1)

RECURSIVE BitLen(_)
BitLen(n) == IF n = 0 THEN 0 ELSE 1 + BitLen(n \div 2)

\* Spacing of representable values around magnitude a.
Quantum(a) == IF BitLen(a) <= MantBits THEN 1 ELSE Pow2(BitLen(a) - MantBits)

RoundMag(a) ==
    LET q == Quantum(a)
        r == a % q
        down == a - r
    IN  IF 2 * r < q THEN down
        ELSE IF 2 * r > q THEN down + q
        ELSE IF (down \div q) % 2 = 0 THEN down ELSE down + q

\* Round-to-nearest-even onto the representable values.
Round(x) == IF x < 0 THEN 0 - RoundMag(0 - x) ELSE RoundMag(x)

Representable(x) == Round(x) = x

FAdd(a, b) == Round(a + b)

FSub(a, b) == Round(a - b)

\* Largest magnitude drawn for min_z / max_z: rounding sets in at 2^MantBits.
MaxMag == Pow2(MantBits + 1)

\* ------------------------------------------------------------- geometry --
Square == << [x |-> 0, y |-> 0], [x |-> 10, y |-> 0],
             [x |-> 10, y |-> 10], [x |-> 0, y |-> 10] >>

Triangle == << [x |-> 1, y |-> 1], [x |-> 5, y |-> 1], [x |-> 3, y |-> 4] >>

Sliver == << [x |-> 2, y |-> 2], [x |-> 6, y |-> 2] >>

\* CSG::cube(Some((&[0,0,0], &[10,10,10]))) of main.rs.
Cube == << [lo |-> 0, hi |-> 10, loop |-> Square] >>

\* A part away from the origin whose cross-sections hold two polygons at
\* some heights and a degenerate polygon at others.
Part == << [lo |-> 2, hi |-> 5, loop |-> Triangle],
           [lo |-> 1, hi |-> 3, loop |-> Sliver],
           [lo |-> 4, hi |-> 6, loop |-> Square] >>

Models == {Cube, Part}

\* model.translate(Vector3::new(0.0, 0.0, dz)): a translated copy.
Translate(m, dz) ==
    [i \in DOMAIN m |-> [m[i] EXCEPT !.lo = FAdd(@, dz), !.hi = FAdd(@, dz)]]

CutBy(prism) == prism.lo <= 0 /\ 0 <= prism.hi

PolygonAt0(prism) ==
    [vertices |-> [j \in DOMAIN prism.loop |->
                      [x |-> prism.loop[j].x, y |-> prism.loop[j].y, z |-> 0]]]

\* m.slice(Plane { normal: Vector3::z(), w: 0.0 }): the polygons in z = 0.
Slice(m) ==
    LET cut == SelectSeq(m, CutBy)
    IN  [i \in DOMAIN cut |-> PolygonAt0(cut[i])]

\* poly.to_polyline(): the 2D vertex loop of a polygon lying in z = 0.
ToPolyline(poly) ==
    [vertex_data |-> [j \in DOMAIN poly.vertices |->
                         [x |-> poly.vertices[j].x, y |-> poly.vertices[j].y]]]

\* Variant: the degenerate test lets two-vertex polygons through.
DegenerateBelowTwo(poly) == Len(poly.vertices) < 2

\* if poly.vertices.len() < 3 { continue; }
Degenerate(poly) == Len(poly.vertices) < 3

\* Variant: the points stay at the translated height 0.
LiftAtZero(pline2d, h) ==
    [j \in DOMAIN pline2d.vertex_data |->
        [x |-> pline2d.vertex_data[j].x, y |-> pline2d.vertex_data[j].y, z |-> 0]]

\* for v2d in pline2d.vertex_data { points_3d.push(Point3::new(v2d.x, v2d.y, z)) }
Lift(pline2d, h) ==
    [j \in DOMAIN pline2d.vertex_data |->
        [x |-> pline2d.vertex_data[j].x, y |-> pline2d.vertex_data[j].y, z |-> h]]

\* Variant: the segment is inserted at the front of the Vec.
PushFront(vec, seg) == << seg >> \o vec

\* all_segments.push(ToolpathSegment { points: points_3d })
Push(vec, seg) == Append(vec, seg)

\* for poly in &cross_section.polygons { ... }
RECURSIVE Harvest(_, _, _)
Harvest(vec, polys, h) ==
    IF polys = << >> THEN vec
    ELSE IF Degenerate(Head(polys)) THEN Harvest(vec, Tail(polys), h)
    ELSE Harvest(Push(vec, [points |-> Lift(ToPolyline(Head(polys)), h)]),
                 Tail(polys), h)

\* History: for each segment pushed, the iteration height and the polygon.
RECURSIVE Provenance(_, _, _)
Provenance(hist, polys, h) ==
    IF polys = << >> THEN hist
    ELSE IF Len(Head(polys).vertices) < 3 THEN Provenance(hist, Tail(polys), h)
    ELSE Provenance(Append(hist, [h |-> h, poly |-> Head(polys)]), Tail(polys), h)

\* ---------------------------------------------------------------- state --
VARIABLES
    mode,           \* which generator runs: "additive" | "subtractive"
    model,          \* the caller's solid (model: &CSG)
    cfg,            \* [step, min_z, max_z]; step is layer_height / step_down
    pc,             \* "start" | "loop" | "done"
    z,              \* the loop variable
    all_segments,   \* Vec<ToolpathSegment>
    model_shifted,  \* the translated copy of the current iteration
    cross_section,  \* its polygons in the plane z = 0
    heights,        \* history: the heights sliced so far, in order
    origin          \* history: where each segment of all_segments came from

vars == << mode, model, cfg, pc, z, all_segments, model_shifted,
           cross_section, heights, origin >>

Vals == {v \in 0..MaxMag : Representable(v)}

Steps == (0 - 1)..MaxStep

Init ==
    /\ mode \in {"additive", "subtractive"}
    /\ model \in Models
    /\ cfg \in [step : Steps, min_z : Vals, max_z : Vals]
    /\ pc = "start"
    /\ z = 0
    /\ all_segments = << >>
    /\ model_shifted = << >>
    /\ cross_section = << >>
    /\ heights = << >>
    /\ origin = << >>

\* ------------------------------------------------------------- additive --
\* Variant: the guard without its tolerance.
AdditiveContinueNoTolerance(h, c) == h <= c.max_z

\* Variant: a do-while loop, the first layer is sliced unconditionally.
AdditiveContinueFirstPass(h, c) == h <= FAdd(c.max_z, Eps) \/ h = c.min_z

\* while z <= cfg.max_z + 1e-7
AdditiveContinue(h, c) == h <= FAdd(c.max_z, Eps)

\* Variant: a last layer is forced at max_z.
AdditiveAdvanceClamped(h, c) ==
    IF h < c.max_z /\ FAdd(h, c.step) > c.max_z THEN c.max_z ELSE FAdd(h, c.step)

\* z += cfg.layer_height
AdditiveAdvance(h, c) == FAdd(h, c.step)

AdditiveBegin ==
    /\ mode = "additive" /\ pc = "start"
    /\ all_segments' = << >>
    /\ z' = cfg.min_z
    /\ pc' = "loop"
    /\ UNCHANGED << mode, model, cfg, model_shifted, cross_section,
                    heights, origin >>

\* Variant: the layer translates the caller's model itself.
AdditiveLayerInPlace ==
    /\ mode = "additive" /\ pc = "loop"
    /\ AdditiveContinue(z, cfg)
    /\ Len(heights) < MaxSlices
    /\ LET shifted == Translate(model, 0 - z)
           polys == Slice(shifted)
       IN  /\ model' = shifted
           /\ model_shifted' = shifted
           /\ cross_section' = polys
           /\ all_segments' = Harvest(all_segments, polys, z)
           /\ origin' = Provenance(origin, polys, z)
    /\ heights' = Append(heights, z)
    /\ z' = AdditiveAdvance(z, cfg)
    /\ UNCHANGED << mode, cfg, pc >>

AdditiveLayer ==
    /\ mode = "additive" /\ pc = "loop"
    /\ AdditiveContinue(z, cfg)
    /\ Len(heights) < MaxSlices
    /\ LET shifted == Translate(model, 0 - z)
           polys == Slice(shifted)
       IN  /\ model_shifted' = shifted
           /\ cross_section' = polys
           /\ all_segments' = Harvest(all_segments, polys, z)
           /\ origin' = Provenance(origin, polys, z)
    /\ heights' = Append(heights, z)
    /\ z' = AdditiveAdvance(z, cfg)
    /\ UNCHANGED << mode, model, cfg, pc >>

AdditiveReturn ==
    /\ mode = "additive" /\ pc = "loop"
    /\ ~AdditiveContinue(z, cfg)
    /\ pc' = "done"
    /\ UNCHANGED << mode, model, cfg, z, all_segments, model_shifted,
                    cross_section, heights, origin >>

\* ---------------------------------------------------------- subtractive --
\* Variant: the guard without its tolerance.
SubtractiveContinueNoTolerance(h, c) == h >= c.min_z

\* while z >= cfg.min_z - 1e-7
SubtractiveContinue(h, c) == h >= FSub(c.min_z, Eps)

\* z -= cfg.step_down
SubtractiveAdvance(h, c) == FSub(h, c.step)

SubtractiveBegin ==
    /\ mode = "subtractive" /\ pc = "start"
    /\ all_segments' = << >>
    /\ z' = cfg.max_z
    /\ pc' = "loop"
    /\ UNCHANGED << mode, model, cfg, model_shifted, cross_section,
                    heights, origin >>

SubtractivePass ==
    /\ mode = "subtractive" /\ pc = "loop"
    /\ SubtractiveContinue(z, cfg)
    /\ Len(heights) < MaxSlices
    /\ LET shifted == Translate(model, 0 - z)
           polys == Slice(shifted)
       IN  /\ model_shifted' = shifted
           /\ cross_section' = polys
           /\ all_segments' = Harvest(all_segments, polys, z)
           /\ origin' = Provenance(origin, polys, z)
    /\ heights' = Append(heights, z)
    /\ z' = SubtractiveAdvance(z, cfg)
    /\ UNCHANGED << mode, model, cfg, pc >>

SubtractiveReturn ==
    /\ mode = "subtractive" /\ pc = "loop"
    /\ ~SubtractiveContinue(z, cfg)
    /\ pc' = "done"
    /\ UNCHANGED << mode, model, cfg, z, all_segments, model_shifted,
                    cross_section, heights, origin >>

Next ==
    \/ AdditiveBegin
    \/ AdditiveLayer
    \/ AdditiveReturn
    \/ SubtractiveBegin
    \/ SubtractivePass
    \/ SubtractiveReturn

Spec == Init /\ [][Next]_vars

\* ------------------------------------------------------------ shorthands --
Additive == mode = "additive"

Subtractive == mode = "subtractive"

ValidConfig == cfg.step > 0 /\ cfg.min_z <= cfg.max_z

Range(s) == {s[i] : i \in DOMAIN s}

SegHeight(i) == all_segments[i].points[1].z

\* The k-th value of z in a run: the start moved k times by the step, each
\* sum rounded as Real rounds it.
RECURSIVE NthAdditive(_)
NthAdditive(k) == IF k = 0 THEN cfg.min_z ELSE FAdd(NthAdditive(k - 1), cfg.step)

RECURSIVE NthSubtractive(_)
NthSubtractive(k) == IF k = 0 THEN cfg.max_z ELSE FSub(NthSubtractive(k - 1), cfg.step)

Last(s) == s[Len(s)]

\* Number of steps that fit below the tolerance-widened bound, in exact
\* arithmetic.
AdditiveSteps == (cfg.max_z + Eps - cfg.min_z) \div cfg.step

SubtractiveSteps == (cfg.max_z - (cfg.min_z - Eps)) \div cfg.step

\* The step is positive and no rounding occurs anywhere in the run: the bound and every value z takes
\* (the one that ends the loop included) are representable.
AdditiveExact ==
    /\ cfg.step > 0
    /\ Representable(cfg.max_z + Eps)
    /\ \A k \in 0..(AdditiveSteps + 1) : Representable(cfg.min_z + k * cfg.step)

SubtractiveExact ==
    /\ cfg.step > 0
    /\ Representable(cfg.min_z - Eps)
    /\ \A k \in 0..(SubtractiveSteps + 1) : Representable(cfg.max_z - k * cfg.step)

\* ---------------------------------------------------------------- C1 -----
\* C1: a configuration with layer_height <= 0 or step_down <= 0 is rejected
\* at once: no height is ever sliced for it and the call does not return a
\* ToolpathSet as if it had succeeded.
C1_InvalidConfigRejected ==
    cfg.step <= 0 => (heights = << >> /\ pc # "done")

\* ---------------------------------------------------------------- C2 -----
\* C2 as stated: a valid additive run slices exactly
\* floor((max_z - min_z) / layer_height) + 1 heights min_z + k*layer_height.
C2_AdditiveCountNoTolerance ==
    (Additive /\ pc = "done" /\ ValidConfig) =>
        heights = [k \in 1..(((cfg.max_z - cfg.min_z) \div cfg.step) + 1) |->
                      cfg.min_z + (k - 1) * cfg.step]

\* C2 amended: a valid additive run slices the heights z_0 = min_z,
\* z_(k+1) = z_k + layer_height, as Real accumulates them, up to the last
\* one that is <= max_z + eps; when no sum is rounded these are exactly
\* floor((max_z + eps - min_z) / layer_height) + 1 heights, namely
\* min_z + k*layer_height for k = 0..floor((max_z + eps - min_z)/layer_height).
C2_AdditiveCount ==
    (Additive /\ ValidConfig) =>
        /\ \A i \in DOMAIN heights :
              heights[i] = NthAdditive(i - 1) /\ heights[i] <= FAdd(cfg.max_z, Eps)
        /\ pc = "done" =>
              /\ heights # << >>
              /\ NthAdditive(Len(heights)) > FAdd(cfg.max_z, Eps)
              /\ AdditiveExact =>
                    heights = [k \in 1..(AdditiveSteps + 1) |->
                                  cfg.min_z + (k - 1) * cfg.step]

\* A returned run whose last layer is admitted by the tolerance only:
\* layer_height 2, min_z 0, max_z 3 slices 0, 2 and 4.
C2_Witness ==
    /\ Additive /\ pc = "done" /\ ValidConfig /\ AdditiveExact
    /\ cfg = [step |-> 2, min_z |-> 0, max_z |-> 3]
    /\ heights = << 0, 2, 4 >>

\* ---------------------------------------------------------------- C3 -----
\* C3 as stated: a valid subtractive run slices exactly
\* floor((max_z - min_z) / step_down) + 1 heights max_z - k*step_down.
C3_SubtractiveCountNoTolerance ==
    (Subtractive /\ pc = "done" /\ ValidConfig) =>
        heights = [k \in 1..(((cfg.max_z - cfg.min_z) \div cfg.step) + 1) |->
                      cfg.max_z - (k - 1) * cfg.step]

\* C3 amended: a valid subtractive run slices the heights z_0 = max_z,
\* z_(k+1) = z_k - step_down, as Real accumulates them, down to the last
\* one that is >= min_z - eps; when no difference is rounded these are
\* exactly floor((max_z - min_z + eps) / step_down) + 1 heights, namely
\* max_z - k*step_down, descending from max_z.
C3_SubtractiveCount ==
    (Subtractive /\ ValidConfig) =>
        /\ \A i \in DOMAIN heights :
              heights[i] = NthSubtractive(i - 1) /\ heights[i] >= FSub(cfg.min_z, Eps)
        /\ pc = "done" =>
              /\ heights # << >>
              /\ NthSubtractive(Len(heights)) < FSub(cfg.min_z, Eps)
              /\ SubtractiveExact =>
                    heights = [k \in 1..(SubtractiveSteps + 1) |->
                                  cfg.max_z - (k - 1) * cfg.step]

\* A returned run in the proportions of main.rs: step_down 2, min_z 0,
\* max_z 10 gave the 6 heights 10, 8, ..., 0.
C3_Witness ==
    /\ Subtractive /\ pc = "done" /\ ValidConfig /\ SubtractiveExact
    /\ cfg = [step |-> 2, min_z |-> 0, max_z |-> 10]
    /\ heights = << 10, 8, 6, 4, 2, 0 >>

\* ---------------------------------------------------------------- C4 -----
\* C4: every segment of all_segments has at least 3 points; each segment
\* comes from a polygon of at least 3 vertices and has as many points as
\* that polygon has vertices, so a polygon of fewer vertices leaves none.
C4_SegmentsHaveThreePoints ==
    /\ Len(origin) = Len(all_segments)
    /\ \A i \in DOMAIN all_segments :
          /\ Len(all_segments[i].points) >= 3
          /\ Len(all_segments[i].points) = Len(origin[i].poly.vertices)

\* A cross-section holding a degenerate polygon next to a proper one.
C4_Witness ==
    /\ \E i \in DOMAIN cross_section : Len(cross_section[i].vertices) < 3
    /\ \E i \in DOMAIN cross_section : Len(cross_section[i].vertices) >= 3
    /\ all_segments # << >>

\* ---------------------------------------------------------------- C5 -----
\* C5 as stated: with a positive step and min_z > max_z the returned
\* ToolpathSet is empty and no height was sliced.
C5_EmptyWheneverMinAboveMax ==
    (pc = "done" /\ cfg.step > 0 /\ cfg.min_z > cfg.max_z) =>
        (heights = << >> /\ all_segments = << >>)

\* The first test of the loop guard fails.
BeyondTolerance ==
    IF Additive THEN cfg.min_z > FAdd(cfg.max_z, Eps)
    ELSE cfg.max_z < FSub(cfg.min_z, Eps)

\* C5 amended: with a positive step and min_z beyond max_z by more than the
\* tolerance (min_z > max_z + eps in additive, max_z < min_z - eps in
\* subtractive, the bound as the guard computes it) no height is ever
\* sliced and the ToolpathSet stays empty up to and including the return.
C5_EmptyBeyondTolerance ==
    (cfg.step > 0 /\ BeyondTolerance) =>
        (heights = << >> /\ all_segments = << >> /\ pc \in {"start", "loop", "done"})

C5_Witness ==
    /\ pc = "done" /\ cfg.step > 0 /\ BeyondTolerance
    /\ cfg.min_z > cfg.max_z
    /\ all_segments = << >>

\* ---------------------------------------------------------------- C6 -----
\* C6: every point of every segment has z equal to the height of the
\* iteration that pushed the segment, and x, y equal to those of the
\* polygon's vertex loop, position by position.
C6_PointsAtRequestedHeight ==
    /\ Len(origin) = Len(all_segments)
    /\ \A i \in DOMAIN all_segments :
          /\ origin[i].h \in Range(heights)
          /\ DOMAIN all_segments[i].points = DOMAIN origin[i].poly.vertices
          /\ \A j \in DOMAIN all_segments[i].points :
                all_segments[i].points[j] =
                    [x |-> origin[i].poly.vertices[j].x,
                     y |-> origin[i].poly.vertices[j].y,
                     z |-> origin[i].h]

\* A segment cut away from the plane z = 0 out of the part that does not
\* sit at the origin.
C6_Witness ==
    /\ model = Part
    /\ \E i \in DOMAIN all_segments :
          /\ all_segments[i].points[1].z = 4
          /\ Len(all_segments[i].points) = 3

\* ---------------------------------------------------------------- C7 -----
SegmentsOrdered ==
    \A i, j \in DOMAIN all_segments :
        i < j =>
            /\ Additive => SegHeight(i) <= SegHeight(j)
            /\ Subtractive => SegHeight(i) >= SegHeight(j)
            /\ SegHeight(i) = SegHeight(j) =>
                  \A k \in i..j : SegHeight(k) = SegHeight(i)

AppendOnly ==
    /\ Len(all_segments') >= Len(all_segments)
    /\ SubSeq(all_segments', 1, Len(all_segments)) = all_segments

\* C7: the segments are in height-iteration order (ascending heights in
\* additive, descending in subtractive, those of one height contiguous) in
\* every run with a positive step and in every returned ToolpathSet, and a
\* step only ever appends to all_segments.
C7_SegmentsInHeightOrder ==
    /\ []((cfg.step > 0 \/ pc = "done") => SegmentsOrdered)
    /\ [][AppendOnly]_vars

\* A returned set with two segments of one height and a third of another.
C7_Witness ==
    /\ pc = "done" /\ Len(all_segments) >= 3
    /\ \E i \in DOMAIN all_segments :
          /\ i + 2 \in DOMAIN all_segments
          /\ SegHeight(i) = SegHeight(i + 1)
          /\ SegHeight(i + 1) # SegHeight(i + 2)

\* ---------------------------------------------------------------- C8 -----
\* C8: no step of either generator changes the caller's model; the copy a
\* step slices is the translation of that unchanged model.
C8_ModelNeverMutated ==
    [][/\ model' = model
       /\ heights' # heights =>
             model_shifted' = Translate(model', 0 - heights'[Len(heights')])]_vars

\* Several heights sliced, the last through a copy that differs from the model.
C8_Witness ==
    /\ Len(heights) >= 2
    /\ model_shifted # << >>
    /\ model_shifted # model

\* ---------------------------------------------------------------- C9 -----
C9_AdditivePart ==
    /\ \A i \in DOMAIN heights :
          /\ cfg.min_z <= heights[i]
          /\ heights[i] <= FAdd(cfg.max_z, Eps)
          /\ heights[i] = NthAdditive(i - 1)
          /\ AdditiveExact =>
                /\ heights[i] <= cfg.max_z + Eps
                /\ heights[i] = cfg.min_z + (i - 1) * cfg.step
    /\ (pc = "done" /\ heights # << >>) =>
          /\ FAdd(Last(heights), cfg.step) > FAdd(cfg.max_z, Eps)
          /\ (AdditiveExact /\ cfg.min_z <= cfg.max_z
                /\ (cfg.max_z - cfg.min_z) % cfg.step # 0) =>
                 cfg.max_z \notin Range(heights)

C9_SubtractivePart ==
    /\ \A i \in DOMAIN heights :
          /\ heights[i] <= cfg.max_z
          /\ heights[i] >= FSub(cfg.min_z, Eps)
          /\ heights[i] = NthSubtractive(i - 1)
          /\ SubtractiveExact =>
                /\ heights[i] >= cfg.min_z - Eps
                /\ heights[i] = cfg.max_z - (i - 1) * cfg.step
    /\ (pc = "done" /\ heights # << >>) =>
          /\ FSub(Last(heights), cfg.step) < FSub(cfg.min_z, Eps)
          /\ (SubtractiveExact /\ cfg.min_z <= cfg.max_z
                /\ (cfg.max_z - cfg.min_z) % cfg.step # 0) =>
                 cfg.min_z \notin Range(heights)

\* C9: with a positive step every sliced height lies between the start and
\* the tolerance-widened bound the guard computes ([min_z, max_z + eps] in
\* additive, [min_z - eps, max_z] in subtractive) and is the start moved by
\* a whole number of steps; at the return the last sliced height is the
\* last such value within the bound, and when max_z - min_z is not a
\* multiple of the step no height is sliced at the far end itself.
C9_HeightsWithinBounds ==
    cfg.step > 0 =>
        /\ Additive => C9_AdditivePart
        /\ Subtractive => C9_SubtractivePart

\* A returned additive run whose range is not a multiple of the step: the
\* last layer lies below max_z.
C9_Witness ==
    /\ Additive /\ pc = "done" /\ cfg.step > 0 /\ AdditiveExact
    /\ cfg.min_z <= cfg.max_z
    /\ (cfg.max_z - cfg.min_z) % cfg.step # 0
    /\ Len(heights) >= 2
    /\ Last(heights) < cfg.max_z

\* ---------------------------------------------------------------- C10 ----
\* C10: with a positive step z moves strictly toward the bound on every
\* iteration, so the heights sliced are strictly increasing in additive and
\* strictly decreasing in subtractive and none is sliced twice.
C10_StrictProgress ==
    cfg.step > 0 =>
        \A i, j \in DOMAIN heights :
            i < j =>
                /\ Additive => heights[i] < heights[j]
                /\ Subtractive => heights[i] > heights[j]

====
